---------------------------- MODULE Spec2Model ----------------------------
(***************************************************************************)
(* Deal-Evaluation: the deal-economics engine of src/src/App.tsx.          *)
(*                                                                         *)
(* The App holds one piece of state, the parameter record `inp`, edited    *)
(* by set(key, v); calc is a pure function of inp (useMemo), recomputed    *)
(* after every edit.                                                       *)
(*                                                                         *)
(* Numbers.  calc's JavaScript numbers are modelled as exact rationals     *)
(* <<num, den>> (den > 0, lowest terms), extended with NaN = <<0,0>>,      *)
(* +Infinity = <<1,0>> and -Infinity = <<-1,0>>: rounding is abstracted    *)
(* away, division by zero and NaN propagation are kept.                    *)
(*                                                                         *)
(* irr is a loop whose course depends on the precision of the numbers (it  *)
(* halves an interval until |NPV| < 1e-8 or 200 steps are used), so it is  *)
(* modelled as a step machine over binary floating point with a Prec-bit   *)
(* significand, round to nearest even: IEEE 754 arithmetic at a reduced    *)
(* precision.                                                              *)
(***************************************************************************)
EXTENDS Integers, Sequences, FiniteSets, TLC

VARIABLES inp, irr, tabs

vars == <<inp, irr, tabs>>

---------------------------------------------------------------------------
(* Extended rational arithmetic (JavaScript number semantics, exact).      *)

Abs(a) == IF a < 0 THEN -a ELSE a

RECURSIVE GCD(_, _)
GCD(a, b) == IF b = 0 THEN a ELSE GCD(b, a % b)

\* num/den in lowest terms with a positive denominator (den # 0)
Q(num, den) ==
  LET g == GCD(Abs(num), Abs(den))
      s == IF den < 0 THEN -1 ELSE 1
  IN  <<(s * num) \div g, (s * den) \div g>>

R(k) == <<k, 1>>

NaN  == <<0, 0>>
PInf == <<1, 0>>
NInf == <<-1, 0>>
Zero == <<0, 1>>
One  == <<1, 1>>

\* isFinite(n), isNaN(n)
IsFinite(x) == x[2] # 0
IsNaN(x)    == x = NaN

Sgn(x) == IF x[1] > 0 THEN 1 ELSE IF x[1] < 0 THEN -1 ELSE 0

Neg(x) == <<-x[1], x[2]>>

Add(a, b) ==
  IF IsNaN(a) \/ IsNaN(b) THEN NaN
  ELSE IF ~IsFinite(a) /\ ~IsFinite(b) THEN (IF a = b THEN a ELSE NaN)
  ELSE IF ~IsFinite(a) THEN a
  ELSE IF ~IsFinite(b) THEN b
  ELSE Q(a[1] * b[2] + b[1] * a[2], a[2] * b[2])

Sub(a, b) == Add(a, Neg(b))

Mul(a, b) ==
  IF IsNaN(a) \/ IsNaN(b) THEN NaN
  ELSE IF ~IsFinite(a) \/ ~IsFinite(b)
       THEN (IF Sgn(a) * Sgn(b) = 0 THEN NaN ELSE <<Sgn(a) * Sgn(b), 0>>)
  ELSE Q(a[1] * b[1], a[2] * b[2])

\* a / b; the divisors of the program are never -0, so x / 0 = sign(x) * Infinity
Div(a, b) ==
  IF IsNaN(a) \/ IsNaN(b) THEN NaN
  ELSE IF ~IsFinite(b) THEN (IF IsFinite(a) THEN Zero ELSE NaN)
  ELSE IF ~IsFinite(a) THEN (IF Sgn(b) < 0 THEN Neg(a) ELSE a)
  ELSE IF b[1] = 0 THEN (IF a[1] = 0 THEN NaN ELSE <<Sgn(a), 0>>)
  ELSE Q(a[1] * b[2], a[2] * b[1])

\* a < b, a <= b (false when either side is NaN)
Lt(a, b) ==
  IF IsNaN(a) \/ IsNaN(b) THEN FALSE
  ELSE IF ~IsFinite(a) /\ ~IsFinite(b) THEN a = NInf /\ b = PInf
  ELSE a[1] * b[2] < b[1] * a[2]

Le(a, b) == ~IsNaN(a) /\ ~IsNaN(b) /\ (a = b \/ Lt(a, b))

\* Math.max, Math.min on numbers that are not NaN
Max(a, b) == IF Lt(a, b) THEN b ELSE a
Min(a, b) == IF Lt(b, a) THEN b ELSE a

\* Math.pow(x, t) for an integer t >= 0 (Math.pow(NaN, 0) is 1)
RECURSIVE Pow(_, _)
Pow(x, t) == IF t = 0 THEN One ELSE Mul(x, Pow(x, t - 1))

---------------------------------------------------------------------------
(* Floating point: <<"n", m, e>> is the number m * 2^e, with m = 0 or      *)
(* 2^(Prec-1) <= |m| < 2^Prec; <<"nan", 0, 0>> is NaN and <<"inf", s, 0>>  *)
(* is s * Infinity.  Every operation rounds its exact result to nearest,   *)
(* ties to even.                                                           *)

Prec == 13

FNaN    == <<"nan", 0, 0>>
FInf(s) == <<"inf", s, 0>>
FZero   == <<"n", 0, 0>>

FIsNaN(x)    == x[1] = "nan"
FIsFinite(x) == x[1] = "n"
FSgn(x)      == IF x[2] > 0 THEN 1 ELSE IF x[2] < 0 THEN -1 ELSE 0

RECURSIVE BitLen(_)
BitLen(k) == IF k = 0 THEN 0 ELSE 1 + BitLen(k \div 2)

\* k / 2^sh rounded to nearest, ties to even (k >= 0, sh >= 0)
RoundShift(k, sh) ==
  IF sh = 0 THEN k
  ELSE LET q    == k \div (2 ^ sh)
           rem  == k % (2 ^ sh)
           half == 2 ^ (sh - 1)
       IN  IF rem > half \/ (rem = half /\ q % 2 = 1) THEN q + 1 ELSE q

\* The float nearest to s * k * 2^e (s = 1 or -1, 0 <= k < 2^31)
FNorm(s, k, e) ==
  IF k = 0 THEN FZero
  ELSE LET len == BitLen(k)
       IN  IF len > Prec
           THEN LET q == RoundShift(k, len - Prec)
                IN  IF q = 2 ^ Prec
                    THEN <<"n", s * (2 ^ (Prec - 1)), e + (len - Prec) + 1>>
                    ELSE <<"n", s * q, e + (len - Prec)>>
           ELSE <<"n", s * k * (2 ^ (Prec - len)), e - (Prec - len)>>

\* The float nearest to s * (a / b) * 2^e, for integers a >= 0 and
\* 0 < b < 2^20: a long division in two stages to at least Prec + 2 bits,
\* with a sticky bit so that the rounding is that of the exact quotient
FQuot(s, a, b, e) ==
  IF a = 0 THEN FZero
  ELSE LET sh1  == 30 - BitLen(a)
           q1   == (a * (2 ^ sh1)) \div b
           r1   == (a * (2 ^ sh1)) % b
           big  == IF BitLen(q1) > BitLen(b) THEN BitLen(q1) ELSE BitLen(b)
           sh2  == IF big < 29 THEN 29 - big ELSE 0
           quo  == q1 * (2 ^ sh2) + ((r1 * (2 ^ sh2)) \div b)
           stky == IF (r1 * (2 ^ sh2)) % b = 0 THEN 0 ELSE 1
       IN  FNorm(s, 2 * quo + stky, e - sh1 - sh2 - 1)

\* A numeric literal num/den and an integer as floats
FQ(num, den) == FQuot(IF num < 0 THEN -1 ELSE 1, Abs(num), den, 0)
FI(k) == FQ(k, 1)

FNeg(x) == <<x[1], -x[2], x[3]>>
FAbs(x) == <<x[1], Abs(x[2]), x[3]>>

\* a + b for finite a, b with exponent of a >= exponent of b
FAddOrdered(a, b) ==
  IF a[3] - b[3] > Prec + 1 THEN a
  ELSE LET k == a[2] * (2 ^ (a[3] - b[3])) + b[2]
       IN  FNorm(IF k < 0 THEN -1 ELSE 1, Abs(k), b[3])

FAdd(a, b) ==
  IF FIsNaN(a) \/ FIsNaN(b) THEN FNaN
  ELSE IF ~FIsFinite(a) /\ ~FIsFinite(b) THEN (IF a = b THEN a ELSE FNaN)
  ELSE IF ~FIsFinite(a) THEN a
  ELSE IF ~FIsFinite(b) THEN b
  ELSE IF a[2] = 0 THEN b
  ELSE IF b[2] = 0 THEN a
  ELSE IF a[3] >= b[3] THEN FAddOrdered(a, b) ELSE FAddOrdered(b, a)

FSub(a, b) == FAdd(a, FNeg(b))

FMul(a, b) ==
  IF FIsNaN(a) \/ FIsNaN(b) THEN FNaN
  ELSE IF ~FIsFinite(a) \/ ~FIsFinite(b)
       THEN (IF FSgn(a) * FSgn(b) = 0 THEN FNaN ELSE FInf(FSgn(a) * FSgn(b)))
  ELSE FNorm(IF FSgn(a) * FSgn(b) < 0 THEN -1 ELSE 1,
             Abs(a[2]) * Abs(b[2]), a[3] + b[3])

FDiv(a, b) ==
  IF FIsNaN(a) \/ FIsNaN(b) THEN FNaN
  ELSE IF ~FIsFinite(b) THEN (IF FIsFinite(a) THEN FZero ELSE FNaN)
  ELSE IF ~FIsFinite(a) THEN (IF FSgn(b) < 0 THEN FNeg(a) ELSE a)
  ELSE IF b[2] = 0 THEN (IF a[2] = 0 THEN FNaN ELSE FInf(FSgn(a)))
  ELSE FQuot(IF FSgn(a) * FSgn(b) < 0 THEN -1 ELSE 1,
             Abs(a[2]), Abs(b[2]), a[3] - b[3])

\* a < b, a <= b, a > b (false when either side is NaN)
FLt(a, b) == ~FIsNaN(a) /\ ~FIsNaN(b) /\ a # b /\ FSgn(FSub(b, a)) > 0
FLe(a, b) == ~FIsNaN(a) /\ ~FIsNaN(b) /\ (a = b \/ FLt(a, b))
FGt(a, b) == FLt(b, a)

\* Math.pow(x, t) for an integer t >= 0, by repeated multiplication
RECURSIVE FPow(_, _)
FPow(x, t) == IF t = 0 THEN FI(1) ELSE FMul(x, FPow(x, t - 1))

---------------------------------------------------------------------------
(* Helpers of App.tsx.                                                     *)

\* const clampNum = (n, min = 0) => (isFinite(n) ? Math.max(min, n) : min)
clampNum(x, min) == IF IsFinite(x) THEN Max(min, x) ELSE min

\* Math.pow(x, 1 / 12).  NaN for x < 0; exact where x is the twelfth power
\* of a rational of RootCands.  Any other x has an irrational root, outside
\* the number domain of this model: the input sets below avoid them.
RootCands == {Q(a, b) : a \in 0..2, b \in 1..2}

Root12(x) ==
  IF IsNaN(x) \/ Lt(x, Zero) THEN NaN
  ELSE IF x = PInf THEN PInf
  ELSE CHOOSE g \in RootCands : Pow(g, 12) = x

\* return Math.pow(1 + annual, 1 / 12) - 1
monthlyRateFromAnnual(annual) == Sub(Root12(Add(One, annual)), One)

\* for (t = 0; t < cashFlows.length; t++) v += cashFlows[t] / Math.pow(1 + rate, t)
\* (cashFlows[t] of the code is cashFlows[t + 1] here: sequences start at 1)
RECURSIVE npvLoop(_, _, _, _)
npvLoop(rate, cashFlows, t, v) ==
  IF ~(t < Len(cashFlows)) THEN v
  ELSE npvLoop(rate, cashFlows, t + 1,
               Add(v, Div(cashFlows[t + 1], Pow(Add(One, rate), t))))

\* A variant that starts at t = 1 and so drops the inception cash flow
npvSkipsInception(rate, cashFlows) == npvLoop(rate, cashFlows, 1, Zero)

npv(rate, cashFlows) == npvLoop(rate, cashFlows, 0, Zero)

\* arr.reduce((a, b) => a + b, 0)
RECURSIVE sumLoop(_, _, _)
sumLoop(arr, k, a) ==
  IF k > Len(arr) THEN a ELSE sumLoop(arr, k + 1, Add(a, arr[k]))

sum(arr) == sumLoop(arr, 1, Zero)

---------------------------------------------------------------------------
(* calc: the evaluation of a parameter record p.                           *)

\* Derived basics
n(p)     == clampNum(p.termMonths, One)
units(p) == clampNum(p.units, Zero)
monthlyRecurringRevenue(p) == Mul(units(p), p.arpuMonthlyPerUnit)

\* Upfront payment: accrual revenue recognized evenly over otherAmortMonths
upfrontRecognMonths(p)    == Min(n(p), clampNum(p.otherAmortMonths, One))
upfrontRevenuePerMonth(p) == Div(p.upfrontPaymentTotal, upfrontRecognMonths(p))

\* CAPEX cash (month 0)
capexTPMS(p)      == Mul(units(p), p.tpmsCapexPerUnit)
capexOther(p)     == Mul(units(p), p.otherHwCapexPerUnit)
capexInstall(p)   == Mul(units(p), p.installCapexPerUnit)
totalCapexCash(p) == Add(Add(capexTPMS(p), capexOther(p)), capexInstall(p))

\* Amortization (non-cash COGS)
\* A variant that spreads the TPMS capex over the contract term
amortTPMSMonthlyOverTerm(p) == Div(capexTPMS(p), n(p))

amortTPMSMonthly(p)  == Div(capexTPMS(p), clampNum(p.tpmsAmortMonths, One))
amortOtherMonthly(p) ==
  Div(Add(capexOther(p), capexInstall(p)), clampNum(p.otherAmortMonths, One))

\* Recurring COGS cash per month
recurringCOGSPerUnit(p) ==
  Add(Add(Add(Add(p.airtimePerUnit, p.thirdPartyPerUnit), p.mcfLicensePerUnit),
          p.peoplePerUnit), p.warrantyPerUnit)
recurringCOGSMonthly(p) == Mul(units(p), recurringCOGSPerUnit(p))

\* Month 0 cash: upfront payment inflow - capex outflow
cashM0(p) == Sub(p.upfrontPaymentTotal, totalCapexCash(p))

\* The body of the loop for month m, entered with the running total cumFCF
MonthRow(p, m, cumFCF) ==
  LET revenue == Add(monthlyRecurringRevenue(p),
                     IF Le(R(m), upfrontRecognMonths(p))
                     THEN upfrontRevenuePerMonth(p) ELSE Zero)
      amortTP == IF Le(R(m), p.tpmsAmortMonths) THEN amortTPMSMonthly(p) ELSE Zero
      amortOT == IF Le(R(m), p.otherAmortMonths) THEN amortOtherMonthly(p) ELSE Zero
      cogsRecurring  == recurringCOGSMonthly(p)
      totalCOGS      == Add(Add(cogsRecurring, amortTP), amortOT)
      grossMargin    == Sub(revenue, totalCOGS)
      grossMarginPct == IF Lt(Zero, revenue) THEN Div(grossMargin, revenue) ELSE Zero
      operatingProfit     == grossMargin
      depreciationAddback == Add(amortTP, amortOT)
      fcfMonthly          == Add(operatingProfit, depreciationAddback)
  IN  [month |-> m, revenue |-> revenue, cogsRecurring |-> cogsRecurring,
       amortTPMS |-> amortTP, amortOther |-> amortOT, totalCOGS |-> totalCOGS,
       grossMargin |-> grossMargin, grossMarginPct |-> grossMarginPct,
       operatingProfit |-> operatingProfit,
       depreciationAddback |-> depreciationAddback,
       capexCash |-> Zero, upfrontCash |-> Zero,
       fcf |-> fcfMonthly, cumFCF |-> Add(cumFCF, fcfMonthly)]

\* A variant without `cumFCF += cashM0`
scheduleStartNoCash(p) ==
  [rows |-> <<>>, cashFlows |-> <<cashM0(p)>>, cumFCF |-> Zero]

\* let cumFCF = 0; cumFCF += cashM0; cashFlows.push(cashM0)
scheduleStart(p) ==
  [rows |-> <<>>, cashFlows |-> <<cashM0(p)>>, cumFCF |-> Add(Zero, cashM0(p))]

\* for (let m = 1; m <= n; m++) { ...; cumFCF += fcfMonthly;
\*   cashFlows.push(fcfMonthly); rows.push({...}) }
RECURSIVE scheduleLoop(_, _, _)
scheduleLoop(p, m, st) ==
  IF ~Le(R(m), n(p)) THEN st
  ELSE LET row == MonthRow(p, m, st.cumFCF)
       IN  scheduleLoop(p, m + 1,
             [rows      |-> Append(st.rows, row),
              cashFlows |-> Append(st.cashFlows, row.fcf),
              cumFCF    |-> row.cumFCF])

schedule(p)  == scheduleLoop(p, 1, scheduleStart(p))
rows(p)      == schedule(p).rows
cashFlows(p) == schedule(p).cashFlows

\* Deal metrics
rMonthly(p) == monthlyRateFromAnnual(Div(p.discountRateAnnualPct, R(100)))
dealNPV(p)  == npv(rMonthly(p), cashFlows(p))
cumFCFEnd(p) ==
  LET rws == rows(p)
  IN  IF Len(rws) # 0 THEN rws[Len(rws)].cumFCF ELSE cashM0(p)

\* A variant that reports the loop index i, not rows[i].month
RECURSIVE paybackLoopIndex(_, _, _)
paybackLoopIndex(rws, i, running) ==
  IF ~(i < Len(rws)) THEN <<>>
  ELSE LET run == Add(running, rws[i + 1].fcf)
       IN  IF Le(Zero, run) THEN <<i>>
           ELSE paybackLoopIndex(rws, i + 1, run)

\* A variant without `break`: the last month with a cumulative >= 0 wins
RECURSIVE paybackLoopNoBreak(_, _, _)
paybackLoopNoBreak(rws, i, running) ==
  IF ~(i < Len(rws)) THEN <<>>
  ELSE LET run  == Add(running, rws[i + 1].fcf)
           rest == paybackLoopNoBreak(rws, i + 1, run)
       IN  IF rest # <<>> THEN rest
           ELSE IF Le(Zero, run) THEN <<rws[i + 1].month>> ELSE <<>>

\* Payback month (first month where cumulative >= 0); <<>> is null, <<m>> is m
RECURSIVE paybackLoop(_, _, _)
paybackLoop(rws, i, running) ==
  IF ~(i < Len(rws)) THEN <<>>
  ELSE LET run == Add(running, rws[i + 1].fcf)
       IN  IF Le(Zero, run) THEN <<rws[i + 1].month>>
           ELSE paybackLoop(rws, i + 1, run)

payback(p) ==
  IF Le(Zero, cashM0(p)) THEN <<0>> ELSE paybackLoop(rows(p), 0, cashM0(p))

---------------------------------------------------------------------------
(* The tabs of the App (components/ui/tabs.tsx).  tabs holds the value the *)
(* Tabs element provides to its context, the children rendered by its      *)
(* TabsContent elements, and the trigger that received the last click.     *)

\* <TabsTrigger value="monthly">, <TabsTrigger value="annual">
TabsTriggers == {"monthly", "annual"}

\* <TabsContent value="monthly"> holds the HorizontalTable,
\* <TabsContent value="annual"> the AnnualTable
AppTabsContents ==
  {[value |-> "monthly", children |-> "HorizontalTable"],
   [value |-> "annual", children |-> "AnnualTable"]}

\* if (ctx.value !== value) return null; return <div>{children}</div>
TabsContent(ctxValue, value, children) ==
  IF ctxValue # value THEN {} ELSE {children}

\* The children of <Tabs> as rendered under the context value
TabsChildren(ctxValue) ==
  UNION {TabsContent(ctxValue, c.value, c.children) : c \in AppTabsContents}

\* A handler that stores the value it is given
onValueChangeStores(cur, v) == v

\* onValueChange={() => {}}: the value stays what it is
onValueChange(cur, v) == cur

\* <Tabs value={"monthly"} ...>, before any click
TabsInit ==
  [value |-> "monthly", rendered |-> TabsChildren("monthly"),
   clicked |-> "none"]

\* onClick={() => ctx.setValue(value)} with setValue: onValueChange, and the
\* next render of the Tabs
TabsTriggerClick(value) ==
  /\ LET nv == onValueChange(tabs.value, value)
     IN  tabs' = [value |-> nv, rendered |-> TabsChildren(nv),
                  clicked |-> value]
  /\ UNCHANGED <<inp, irr>>

---------------------------------------------------------------------------
(* The App's state and its one handler.                                    *)

Keys ==
  {"termMonths", "units", "arpuMonthlyPerUnit", "upfrontPaymentTotal",
   "tpmsCapexPerUnit", "otherHwCapexPerUnit", "installCapexPerUnit",
   "tpmsAmortMonths", "otherAmortMonths", "airtimePerUnit",
   "thirdPartyPerUnit", "mcfLicensePerUnit", "peoplePerUnit",
   "warrantyPerUnit", "discountRateAnnualPct"}

\* setInp((prev) => ({ ...prev, [key]: isFinite(v) ? v : 0 }))
set(key, v) ==
  /\ inp' = [inp EXCEPT ![key] = IF IsFinite(v) THEN v ELSE Zero]
  /\ UNCHANGED <<irr, tabs>>

---------------------------------------------------------------------------
(* Bounds and input sets of the edit model.                                *)

MaxTerm  == 3
MaxUnits == 2
MaxAmort == 2

\* The values an edit may carry, per field.  Terms and amortization terms
\* include 0 (clamped to 1) and non-integers (parseFloat accepts them);
\* units include a negative count (clamped to 0); the discount rates are
\* those whose monthly rate Root12 represents: 0 %, -100 %, -200 %, 409500 %.
InputVals(key) ==
  CASE key = "termMonths" ->
         {R(0), R(MaxTerm - 1), Q(2 * MaxTerm - 1, 2), R(MaxTerm)}
    [] key = "units"                 -> {R(-1), R(0), R(MaxUnits)}
    [] key = "arpuMonthlyPerUnit"    -> {R(0), Q(1, 4), R(3)}
    [] key = "upfrontPaymentTotal"   -> {R(0), R(2), R(6)}
    [] key = "tpmsCapexPerUnit"      -> {R(0), R(4)}
    [] key = "otherHwCapexPerUnit"   -> {R(0), R(1)}
    [] key = "installCapexPerUnit"   -> {R(0), R(1)}
    [] key = "tpmsAmortMonths"       -> {R(0), Q(3, 2), R(MaxAmort + 2)}
    [] key = "otherAmortMonths"      -> {R(0), R(MaxAmort)}
    [] key = "airtimePerUnit"        -> {R(0), Q(1, 2)}
    [] key = "thirdPartyPerUnit"     -> {R(0)}
    [] key = "mcfLicensePerUnit"     -> {R(0)}
    [] key = "peoplePerUnit"         -> {R(0)}
    [] key = "warrantyPerUnit"       -> {R(0)}
    [] key = "discountRateAnnualPct" -> {R(0), R(-100), R(-200), R(409500)}

\* What the input field may hand to set: a number of the field's set, or a
\* non-finite value
RawVals(key) == InputVals(key) \cup {NaN, PInf, NInf}

\* A parameter record of the edit model: the constructed defaults after one
\* edit of every field
InitInp ==
  [termMonths |-> R(MaxTerm), units |-> R(MaxUnits),
   arpuMonthlyPerUnit |-> R(3), upfrontPaymentTotal |-> R(2),
   tpmsCapexPerUnit |-> R(4), otherHwCapexPerUnit |-> R(1),
   installCapexPerUnit |-> R(1),
   tpmsAmortMonths |-> R(MaxAmort + 2), otherAmortMonths |-> R(MaxAmort),
   airtimePerUnit |-> Q(1, 2), thirdPartyPerUnit |-> R(0),
   mcfLicensePerUnit |-> R(0), peoplePerUnit |-> R(0),
   warrantyPerUnit |-> R(0), discountRateAnnualPct |-> R(0)]

\* the value `null`, and no call of irr in progress
FNull == <<"null", 0, 0>>

IrrIdle ==
  [pc |-> "idle", cashFlows |-> <<>>, lo |-> FZero, hi |-> FZero,
   mid |-> FZero, fLo |-> FZero, fHi |-> FZero, i |-> 0, r |-> FZero,
   bestR |-> FZero, bestAbs |-> FZero, steps |-> 0, ret |-> FNull]

Init == inp = InitInp /\ irr = IrrIdle /\ tabs = TabsInit

Next == \E key \in Keys : \E v \in RawVals(key) : set(key, v)

Spec == Init /\ [][Next]_vars

---------------------------------------------------------------------------
(* irr(cashFlows), one call as a step machine.  irr holds the call's       *)
(* locals under the names of the code; pc is the position in the function, *)
(* steps counts the scan's iterations (the code keeps no such counter).    *)

\* npv(rate, cashFlows) in floating point
RECURSIVE npvFLoop(_, _, _, _)
npvFLoop(rate, cfs, t, v) ==
  IF ~(t < Len(cfs)) THEN v
  ELSE npvFLoop(rate, cfs, t + 1,
                FAdd(v, FDiv(cfs[t + 1], FPow(FAdd(FI(1), rate), t))))

npvF(rate, cfs) == npvFLoop(rate, cfs, 0, FZero)

\* const f = (r) => npv(r, cashFlows)
f(cfs, x) == npvF(x, cfs)

\* let lo = -0.9999, hi = 10, mid = guess (guess = 0.1)
IrrLo   == FQ(-9999, 10000)
IrrHi   == FI(10)
Guess   == FQ(1, 10)
\* for (let r = -0.9; r <= 1; r += 0.01)
ScanFrom == FQ(-9, 10)
ScanTo   == FI(1)
ScanStep == FQ(1, 100)
\* the iterations of that loop: r = -0.9, -0.89, ..., 1 at most
MaxScanSteps == 191
\* for (let i = 0; i < 200; i++)
MaxIter == 200
\* 1e-8 = 5^-8 * 2^-8
Eps == FQuot(1, 1, 390625, -8)

IrrCall(cfs) == [IrrIdle EXCEPT !.pc = "start", !.cashFlows = cfs]

\* lines 72-82: the locals, the NaN check and the choice of the path
IrrEnter ==
  /\ irr.pc = "start"
  /\ LET fLo == f(irr.cashFlows, IrrLo)
         fHi == f(irr.cashFlows, IrrHi)
         st  == [irr EXCEPT !.lo = IrrLo, !.hi = IrrHi, !.mid = Guess,
                            !.fLo = fLo, !.fHi = fHi]
     IN  irr' =
           IF FIsNaN(fLo) \/ FIsNaN(fHi)
           THEN [st EXCEPT !.pc = "done", !.ret = FNull]
           ELSE IF FGt(FMul(fLo, fHi), FZero)
           THEN [st EXCEPT !.pc = "scan", !.bestR = FQ(-9999, 10000),
                           !.bestAbs = FAbs(fLo), !.r = ScanFrom]
           ELSE [st EXCEPT !.pc = "bisect", !.i = 0]
  /\ UNCHANGED <<inp, tabs>>

\* The scan step with `r += 0.01` left out
IrrScanStepNoAdvance ==
  /\ irr.pc = "scan"
  /\ FLe(irr.r, ScanTo)
  /\ LET v == FAbs(f(irr.cashFlows, irr.r))
     IN  irr' = [irr EXCEPT
                   !.bestAbs = IF FLt(v, irr.bestAbs) THEN v ELSE @,
                   !.bestR   = IF FLt(v, irr.bestAbs) THEN irr.r ELSE @,
                   !.steps   = @ + 1]
  /\ UNCHANGED <<inp, tabs>>

\* lines 83-89: one iteration of the fallback scan
IrrScanStep ==
  /\ irr.pc = "scan"
  /\ FLe(irr.r, ScanTo)
  /\ LET v == FAbs(f(irr.cashFlows, irr.r))
     IN  irr' = [irr EXCEPT
                   !.bestAbs = IF FLt(v, irr.bestAbs) THEN v ELSE @,
                   !.bestR   = IF FLt(v, irr.bestAbs) THEN irr.r ELSE @,
                   !.r       = FAdd(irr.r, ScanStep),
                   !.steps   = @ + 1]
  /\ UNCHANGED <<inp, tabs>>

\* line 90: return bestR
IrrScanReturn ==
  /\ irr.pc = "scan"
  /\ ~FLe(irr.r, ScanTo)
  /\ irr' = [irr EXCEPT !.pc = "done", !.ret = irr.bestR]
  /\ UNCHANGED <<inp, tabs>>

\* The bisection step with the two branches of `fLo * fMid <= 0` exchanged
IrrBisectStepSwapped ==
  /\ irr.pc = "bisect"
  /\ irr.i < MaxIter
  /\ LET mid  == FDiv(FAdd(irr.lo, irr.hi), FI(2))
         fMid == f(irr.cashFlows, mid)
     IN  irr' =
           IF FLt(FAbs(fMid), Eps)
           THEN [irr EXCEPT !.mid = mid, !.pc = "done", !.ret = mid]
           ELSE IF FLe(FMul(irr.fLo, fMid), FZero)
           THEN [irr EXCEPT !.mid = mid, !.lo = mid, !.fLo = fMid, !.i = @ + 1]
           ELSE [irr EXCEPT !.mid = mid, !.hi = mid, !.fHi = fMid, !.i = @ + 1]
  /\ UNCHANGED <<inp, tabs>>

\* lines 92-103: one iteration of the bisection; `break` leaves the loop and
\* line 104 returns mid
IrrBisectStep ==
  /\ irr.pc = "bisect"
  /\ irr.i < MaxIter
  /\ LET mid  == FDiv(FAdd(irr.lo, irr.hi), FI(2))
         fMid == f(irr.cashFlows, mid)
     IN  irr' =
           IF FLt(FAbs(fMid), Eps)
           THEN [irr EXCEPT !.mid = mid, !.pc = "done", !.ret = mid]
           ELSE IF FLe(FMul(irr.fLo, fMid), FZero)
           THEN [irr EXCEPT !.mid = mid, !.hi = mid, !.fHi = fMid, !.i = @ + 1]
           ELSE [irr EXCEPT !.mid = mid, !.lo = mid, !.fLo = fMid, !.i = @ + 1]
  /\ UNCHANGED <<inp, tabs>>

\* line 104: return mid, the 200 iterations used
IrrBisectReturn ==
  /\ irr.pc = "bisect"
  /\ ~(irr.i < MaxIter)
  /\ irr' = [irr EXCEPT !.pc = "done", !.ret = irr.mid]
  /\ UNCHANGED <<inp, tabs>>

\* The cash-flow vectors of the calls: every vector of 1..MaxLen entries
\* over CfVals, and the vector calc hands over for InitInp
MaxLen == 2
CfVals == {FI(-2), FI(-1), FI(0), FI(1), FI(3), FNaN}

ToF(x) ==
  IF IsNaN(x) THEN FNaN
  ELSE IF ~IsFinite(x) THEN FInf(Sgn(x))
  ELSE FQuot(IF x[1] < 0 THEN -1 ELSE 1, Abs(x[1]), x[2], 0)

\* const dealIRR = irr(cashFlows)
dealIRRInput(p) == [t \in 1..Len(cashFlows(p)) |-> ToF(cashFlows(p)[t])]

IrrVectors ==
  UNION {[1..len -> CfVals] : len \in 1..MaxLen} \cup {dealIRRInput(InitInp)}

InitIrr ==
  /\ inp = InitInp
  /\ irr \in {IrrCall(vec) : vec \in IrrVectors}
  /\ tabs = TabsInit

NextIrr ==
  \/ IrrEnter
  \/ IrrScanStep
  \/ IrrScanReturn
  \/ IrrBisectStep
  \/ IrrBisectReturn

\* irr is a synchronous function call: once entered it runs to its return.
\* This is WF_vars(NextIrr) with ENABLED <<NextIrr>>_vars written out: a
\* step of NextIrr is possible exactly while the call has not returned.
IrrFairness == []<>(irr.pc = "done") \/ []<><<NextIrr>>_vars

SpecIrr == InitIrr /\ [][NextIrr]_vars /\ IrrFairness

---------------------------------------------------------------------------
(* The concrete scenario of the specification, starting from the state     *)
(* the App constructs.                                                     *)

\* useState<Inputs>({ termMonths: 36, units: 5_000, ... })
DefaultInp ==
  [termMonths |-> R(36), units |-> R(5000),
   arpuMonthlyPerUnit |-> Q(5, 2), upfrontPaymentTotal |-> R(250000),
   tpmsCapexPerUnit |-> R(12), otherHwCapexPerUnit |-> R(18),
   installCapexPerUnit |-> R(10),
   tpmsAmortMonths |-> R(24), otherAmortMonths |-> R(24),
   airtimePerUnit |-> Q(35, 100), thirdPartyPerUnit |-> Q(2, 10),
   mcfLicensePerUnit |-> Q(25, 100), peoplePerUnit |-> Q(15, 100),
   warrantyPerUnit |-> Q(5, 100), discountRateAnnualPct |-> R(10)]

\* term 36, units 100, revenue/unit 20, upfront 100 x 100 = 10,000,
\* capex/unit 80 + 70 + 30, amortization 24 + 24, recurring cost 1.00, 10 %
Scenario ==
  [DefaultInp EXCEPT !.units = R(100), !.arpuMonthlyPerUnit = R(20),
                     !.upfrontPaymentTotal = R(10000),
                     !.tpmsCapexPerUnit = R(80),
                     !.otherHwCapexPerUnit = R(70),
                     !.installCapexPerUnit = R(30)]

\* The edits of the scenario model: each field takes its default or its
\* scenario value; the term also a one-year contract
ScenarioVals(key) ==
  {DefaultInp[key], Scenario[key]}
    \cup (IF key = "termMonths" THEN {R(12)} ELSE {})

InitScenario == inp = DefaultInp /\ irr = IrrIdle /\ tabs = TabsInit

NextScenario == \E key \in Keys : \E v \in ScenarioVals(key) : set(key, v)

SpecScenario == InitScenario /\ [][NextScenario]_vars

---------------------------------------------------------------------------
(* calc: the annual aggregation.                                           *)

\* the 12 of Math.ceil(n / 12), y * 12 and start + 12
MonthsPerYear == 12

\* Math.ceil(x) for a finite x > 0
Ceil(x) == (x[1] + x[2] - 1) \div x[2]

\* const years = Math.ceil(n / 12)
years(p) == Ceil(Div(n(p), R(MonthsPerYear)))

\* rows.slice(start, end) with end = Math.min(start + 12, rows.length)
slice(rws, y) ==
  LET start == y * MonthsPerYear
      end   == IF start + MonthsPerYear < Len(rws)
               THEN start + MonthsPerYear ELSE Len(rws)
  IN  SubSeq(rws, start + 1, end)

\* sum(slice.map((r) => r[key]))
sliceSum(sl, key) == sum([i \in 1..Len(sl) |-> sl[i][key]])

\* The body of the loop for year index y, entered with the running cumRev
AnnualRow(rws, y, cumRev) ==
  LET sl          == slice(rws, y)
      revenue     == sliceSum(sl, "revenue")
      totalCOGS   == sliceSum(sl, "totalCOGS")
      grossMargin == Sub(revenue, totalCOGS)
  IN  [year            |-> y + 1,
       revenue         |-> revenue,
       cogsRecurring   |-> sliceSum(sl, "cogsRecurring"),
       amort           |-> sum([i \in 1..Len(sl) |->
                                 Add(sl[i].amortTPMS, sl[i].amortOther)]),
       totalCOGS       |-> totalCOGS,
       grossMargin     |-> grossMargin,
       grossMarginPct  |-> IF Lt(Zero, revenue)
                           THEN Div(grossMargin, revenue) ELSE Zero,
       operatingProfit |-> sliceSum(sl, "operatingProfit"),
       fcf             |-> sliceSum(sl, "fcf"),
       cumRevenue      |-> Add(cumRev, revenue)]

\* for (let y = 0; y < years; y++) { ...; cumRev += revenue; annual.push(...) }
RECURSIVE annualLoop(_, _, _, _, _)
annualLoop(rws, yrs, y, cumRev, acc) ==
  IF ~(y < yrs) THEN acc
  ELSE LET row == AnnualRow(rws, y, cumRev)
       IN  annualLoop(rws, yrs, y + 1, row.cumRevenue, Append(acc, row))

annual(p) == annualLoop(rows(p), years(p), 0, Zero, <<>>)

---------------------------------------------------------------------------
(* HorizontalTable: the Total column of the monthly table.                 *)

\* const total = (key) => sum(rows.map((r) => r[key]))
total(rws, key) == sum([i \in 1..Len(rws) |-> rws[i][key]])

\* const totals = { revenue: total("revenue"), ... }
totals(rws, c0) ==
  [revenue         |-> total(rws, "revenue"),
   cogsRecurring   |-> total(rws, "cogsRecurring"),
   amort           |-> Add(total(rws, "amortTPMS"), total(rws, "amortOther")),
   totalCOGS       |-> total(rws, "totalCOGS"),
   grossMargin     |-> total(rws, "grossMargin"),
   operatingProfit |-> total(rws, "operatingProfit"),
   fcf             |-> Add(c0, total(rws, "fcf"))]

\* The last value of the "Gross Margin %" row:
\* (totals.grossMargin / Math.max(1, totals.revenue)) * 100
totalGrossMarginPct(rws, c0) ==
  LET t == totals(rws, c0)
  IN  Mul(Div(t.grossMargin, Max(One, t.revenue)), R(100))

---------------------------------------------------------------------------
(* Multi-year contracts: the edit model with terms around the year         *)
(* boundaries, up to MaxYears years.                                       *)

MaxYears == 2

\* The terms: one month, the last full year but one, half a month and one
\* month past it, and MaxYears full years
AnnualVals(key) ==
  CASE key = "termMonths" ->
         {R(1), R(MonthsPerYear * (MaxYears - 1)),
          Q(2 * MonthsPerYear * (MaxYears - 1) + 1, 2),
          R(MonthsPerYear * (MaxYears - 1) + 1), R(MonthsPerYear * MaxYears)}
    [] key = "units"               -> {R(0), R(MaxUnits)}
    [] key = "arpuMonthlyPerUnit"  -> {Q(1, 4), R(3)}
    [] key = "upfrontPaymentTotal" -> {R(0), R(6)}
    [] key = "tpmsAmortMonths"     -> {Q(3, 2), R(MonthsPerYear + 1)}
    [] key = "otherAmortMonths"    -> {R(0), R(MonthsPerYear * MaxYears)}
    [] OTHER                       -> {InitInp[key]}

InitAnnual ==
  /\ inp = [InitInp EXCEPT !.termMonths = R(MonthsPerYear * (MaxYears - 1) + 1),
                           !.tpmsAmortMonths = R(MonthsPerYear + 1)]
  /\ irr = IrrIdle
  /\ tabs = TabsInit

NextAnnual == \E key \in Keys : \E v \in AnnualVals(key) : set(key, v)

SpecAnnual == InitAnnual /\ [][NextAnnual]_vars

---------------------------------------------------------------------------
(* The App with its tabs: edits of the inputs and clicks on the triggers.  *)

NextTabs ==
  \/ NextAnnual
  \/ \E value \in TabsTriggers : TabsTriggerClick(value)

SpecTabs == InitAnnual /\ [][NextTabs]_vars

---------------------------------------------------------------------------
(* Properties.                                                             *)

\* C1: for the concrete scenario the evaluation yields inception cash
\* -8,000, total monthly amortization 750, month-1 gross margin 1,150,
\* month-1 free cash flow 1,900 and payback month 5.
ScenarioArithmetic ==
  inp = Scenario =>
    /\ cashM0(inp) = R(-8000)
    /\ Add(amortTPMSMonthly(inp), amortOtherMonthly(inp)) = R(750)
    /\ rows(inp)[1].grossMargin = R(1150)
    /\ rows(inp)[1].fcf = R(1900)
    /\ payback(inp) = <<5>>

\* C2: for unit count = 0 and any values of the other inputs, every
\* operating row has revenue = 0, total COGS = 0, gross margin = 0 and
\* free cash flow = 0.
ZeroUnitsAllZero ==
  inp.units = Zero =>
    LET rws == rows(inp)
    IN  \A i \in 1..Len(rws) :
          /\ rws[i].revenue = Zero
          /\ rws[i].totalCOGS = Zero
          /\ rws[i].grossMargin = Zero
          /\ rws[i].fcf = Zero

\* C3: the upfront payment enters free cash flow only at inception: in
\* every operating month the upfront cash inflow is 0 and the month's free
\* cash flow is the same for every upfront payment amount and every
\* revenue-recognition term, so the terminal cumulative FCF counts the
\* upfront payment exactly once.
UpfrontOnlyAtInception ==
  LET rws == rows(inp)
  IN  /\ \A i \in 1..Len(rws) : rws[i].upfrontCash = Zero
      /\ \A u \in InputVals("upfrontPaymentTotal") :
           \A T \in InputVals("otherAmortMonths") :
             LET q == rows([inp EXCEPT !.upfrontPaymentTotal = u,
                                       !.otherAmortMonths = T])
             IN  \A i \in 1..Len(rws) : q[i].fcf = rws[i].fcf
      /\ Sub(cumFCFEnd(inp),
             cumFCFEnd([inp EXCEPT !.upfrontPaymentTotal = Zero]))
           = inp.upfrontPaymentTotal

\* The cumulative free cash flow at period k (0 = inception), read off a
\* cash-flow vector: the sum of its entries 0..k
CumAt(cfs, k) == sum(SubSeq(cfs, 1, k + 1))

\* The periods 0..term at which the cumulative free cash flow is >= 0
NonNegPeriods(cfs) == {k \in 0..(Len(cfs) - 1) : Le(Zero, CumAt(cfs, k))}

\* C4: the payback month is the smallest period index in 0..term whose
\* cumulative FCF is >= 0 (0 when the inception cash alone is >= 0), and it
\* is null exactly when the cumulative FCF is negative at every period.
PaybackIsFirstNonNegative ==
  LET pb   == payback(inp)
      good == NonNegPeriods(cashFlows(inp))
  IN  /\ pb = <<>> <=> good = {}
      /\ pb # <<>> => (pb[1] \in good /\ \A k \in good : pb[1] <= k)
      /\ Le(Zero, cashM0(inp)) => pb = <<0>>

PaybackWitness ==
  LET pb == payback(inp)
  IN  pb # <<>> /\ pb[1] >= 2 /\ pb[1] < Len(rows(inp))

\* C5: for two parameter records that differ only in the monthly recurring
\* revenue per unit, a1 <= a2, a payback month p under a1 gives a payback
\* month <= p under a2 (null counts as later than every month).
PaybackMonotoneInArpu ==
  LET p1 == payback(inp)
  IN  p1 # <<>> =>
        \A a2 \in InputVals("arpuMonthlyPerUnit") :
          Le(inp.arpuMonthlyPerUnit, a2) =>
            LET p2 == payback([inp EXCEPT !.arpuMonthlyPerUnit = a2])
            IN  p2 # <<>> /\ p2[1] <= p1[1]

ArpuWitness ==
  LET p1 == payback(inp)
  IN  /\ p1 # <<>>
      /\ p1[1] >= 2
      /\ \E a2 \in InputVals("arpuMonthlyPerUnit") :
           /\ Lt(inp.arpuMonthlyPerUnit, a2)
           /\ payback([inp EXCEPT !.arpuMonthlyPerUnit = a2])[1] < p1[1]

\* The operating months: the integers m with 1 <= m <= n
Months(p) == {m \in 1..(MaxTerm + 1) : Le(R(m), n(p))}

IrrRootWithinEps ==
  (irr.pc = "done" /\ irr.ret # FNull) =>
    FLt(FAbs(npvF(irr.ret, irr.cashFlows)), Eps)

\* C8: irr terminates on every cash-flow vector: the bisection loop runs at
\* most 200 iterations, the fallback scan runs a fixed bounded number of
\* steps over [-0.9, 1], and the call ends by returning a rate or null.
IrrTerminates ==
  /\ [](/\ irr.i <= MaxIter
        /\ irr.steps <= MaxScanSteps
        /\ (irr.pc = "scan" =>
              FLe(ScanFrom, irr.r) /\ FLe(irr.r, FAdd(ScanTo, ScanStep)))
        /\ (irr.pc = "done" => irr.ret = FNull \/ FIsFinite(irr.ret)))
  /\ <>(irr.pc = "done")

\* a call that used all 200 bisection steps and returned its last midpoint
IrrBudgetWitness ==
  irr.pc = "done" /\ irr.i = MaxIter /\ FIsFinite(irr.ret)

\* C9: npv at a 0 % annual discount rate (monthly rate 0) equals the plain
\* sum of the cash-flow vector.
NpvAtZeroIsSum ==
  LET cfs == cashFlows(inp)
      tot == sum(cfs)
  IN  /\ monthlyRateFromAnnual(Zero) = Zero
      /\ npv(monthlyRateFromAnnual(Zero), cfs) = tot
      /\ inp.discountRateAnnualPct = Zero => dealNPV(inp) = tot

NpvAtZeroWitness ==
  LET cfs == cashFlows(inp)
  IN  /\ inp.discountRateAnnualPct = Zero
      /\ Len(cfs) >= 3
      /\ \A t \in 1..Len(cfs) : cfs[t] # Zero
      /\ dealNPV(inp) # npv(One, cfs)

\* The numeric fields of a MonthRow
RowFields ==
  {"revenue", "cogsRecurring", "amortTPMS", "amortOther", "totalCOGS",
   "grossMargin", "grossMarginPct", "operatingProfit", "depreciationAddback",
   "capexCash", "upfrontCash", "fcf", "cumFCF"}

\* C10: after any sequence of edits every stored field is a finite number,
\* the evaluation uses term >= 1, units >= 0 and amortization divisors
\* >= 1, produces at least one operating row, and every row field, the NPV
\* and the cumulative FCF are finite numbers.
AlwaysWellFormed ==
  LET rws == rows(inp)
  IN  /\ \A key \in Keys : IsFinite(inp[key])
      /\ Le(One, n(inp))
      /\ Le(Zero, units(inp))
      /\ Le(One, clampNum(inp.tpmsAmortMonths, One))
      /\ Le(One, clampNum(inp.otherAmortMonths, One))
      /\ Len(rws) >= 1
      /\ \A i \in 1..Len(rws) : \A fld \in RowFields : IsFinite(rws[i][fld])
      /\ IsFinite(cumFCFEnd(inp))
      /\ IsFinite(dealNPV(inp))

\* C11: the blended gross margin % shown for the whole deal is
\* (sum of revenue - sum of total COGS) / (sum of revenue) over the
\* operating rows, as a percentage, whenever the sum of revenue is > 0
\* (sums between 0 and 1 included), and 0 when the sum of revenue is 0.
BlendedGrossMarginPct ==
  LET rws   == rows(inp)
      rev   == total(rws, "revenue")
      cogs  == total(rws, "totalCOGS")
      shown == totalGrossMarginPct(rws, cashM0(inp))
  IN  /\ Lt(Zero, rev) => shown = Mul(Div(Sub(rev, cogs), rev), R(100))
      /\ rev = Zero => shown = Zero

\* The rows of year y (1-based) in the partition of the rows, in order,
\* into consecutive windows of 12
WindowOf(rws, y) ==
  {i \in 1..Len(rws) :
     (y - 1) * MonthsPerYear < i /\ i <= y * MonthsPerYear}

\* The sum of a field over the rows of year y
WindowSum(rws, y, key) ==
  LET w == WindowOf(rws, y)
  IN  sum([k \in 1..Cardinality(w) |->
             rws[(y - 1) * MonthsPerYear + k][key]])

\* C12: the annual roll-up partitions the operating rows, in order, into
\* consecutive windows of 12 rows where only the last may be shorter and
\* none is empty; each annual revenue, COGS, operating profit and FCF is
\* the sum of the field over its window; the cumulative revenue of year y
\* is the sum of the annual revenue of years 1..y, and that of the last
\* year is the total revenue of all operating rows.
AnnualPartitionsRows ==
  LET rws == rows(inp)
      ann == annual(inp)
  IN  /\ Len(ann) >= 1
      /\ \A y \in 1..Len(ann) :
           /\ WindowOf(rws, y) # {}
           /\ y < Len(ann) => Cardinality(WindowOf(rws, y)) = MonthsPerYear
           /\ ann[y].revenue = WindowSum(rws, y, "revenue")
           /\ ann[y].totalCOGS = WindowSum(rws, y, "totalCOGS")
           /\ ann[y].operatingProfit = WindowSum(rws, y, "operatingProfit")
           /\ ann[y].fcf = WindowSum(rws, y, "fcf")
           /\ ann[y].cumRevenue =
                sum([k \in 1..y |-> ann[k].revenue])
      /\ UNION {WindowOf(rws, y) : y \in 1..Len(ann)} = 1..Len(rws)
      /\ ann[Len(ann)].cumRevenue = total(rws, "revenue")

\* The amortization of one capex bucket as stated: in month m the bucket
\* total / max(T, 1) when m <= T and 0 afterwards, 0 in every month when
\* T <= 0; the sum over the schedule is at most the bucket total and is
\* the bucket total when T is an integer with 1 <= T <= term
AmortAsStated(rws, field, T, cap, term) ==
  LET tot == total(rws, field)
  IN  /\ \A m \in 1..Len(rws) :
           rws[m][field] =
             IF Le(R(m), T) THEN Div(cap, Max(T, One)) ELSE Zero
      /\ Le(T, Zero) => \A m \in 1..Len(rws) : rws[m][field] = Zero
      /\ Le(tot, cap)
      /\ (T[2] = 1 /\ Le(One, T) /\ Le(T, term)) => tot = cap

Bracket(st) ==
  /\ FLe(IrrLo, st.lo) /\ FLe(st.lo, st.mid)
  /\ FLe(st.mid, st.hi) /\ FLe(st.hi, IrrHi)
  /\ FLe(FMul(st.fLo, st.fHi), FZero)

\* The state is on the bisection path and an iteration has just ended: the
\* loop goes on, or it stopped at `break` or after the last iteration
AfterIteration ==
  \/ irr.pc = "bisect" /\ irr.i >= 1
  \/ irr.pc = "done" /\ irr.ret # FNull /\ irr.steps = 0

\* What holds of the states: the bracket after every iteration, and the
\* range of every non-null rate returned
BracketAndRange ==
  /\ AfterIteration => Bracket(irr)
  /\ irr.pc = "done" /\ irr.ret # FNull =>
       FLe(IrrLo, irr.ret) /\ FLe(irr.ret, IrrHi)

\* An iteration that does not stop
GoesOn == irr.pc = "bisect" /\ irr'.pc = "bisect"

\* C14 as stated: the bracket holds after every iteration of the bisection,
\* every non-null rate returned lies in [-0.9999, 10], and each iteration
\* that does not stop halves hi - lo.
BisectionHalves ==
  /\ []BracketAndRange
  /\ [][GoesOn => FSub(irr'.hi, irr'.lo) =
                    FDiv(FSub(irr.hi, irr.lo), FI(2))]_vars

\* C14, amended: the bracket holds after every iteration of the bisection,
\* every non-null rate returned lies in [-0.9999, 10], and an iteration that
\* does not stop moves one end of the bracket to the rounded midpoint, so
\* that hi - lo never grows.
BisectionBracket ==
  /\ []BracketAndRange
  /\ [][GoesOn =>
          /\ \/ irr'.lo = irr'.mid /\ irr'.hi = irr.hi
             \/ irr'.hi = irr'.mid /\ irr'.lo = irr.lo
          /\ FLe(irr.lo, irr'.lo) /\ FLe(irr'.hi, irr.hi)
          /\ FLe(FSub(irr'.hi, irr'.lo), FSub(irr.hi, irr.lo))]_vars

\* The bisection has moved both ends of the bracket and goes on
BracketWitness ==
  /\ irr.pc = "bisect" /\ irr.i >= 2
  /\ irr.lo # IrrLo /\ irr.hi # IrrHi
  /\ FLt(irr.lo, irr.hi)

\* C15: after any sequence of clicks on the two triggers (and of edits) the
\* Tabs value is "monthly", exactly one TabsContent is rendered, it is the
\* monthly table, and the annual table is not rendered.
ActiveTabConstant ==
  /\ tabs.value = "monthly"
  /\ Cardinality(tabs.rendered) = 1
  /\ "HorizontalTable" \in tabs.rendered
  /\ "AnnualTable" \notin tabs.rendered

\* The 'Annual P&L' trigger has just been clicked, after an edit
AnnualClickWitness ==
  /\ tabs.clicked = "annual"
  /\ inp.termMonths # R(MonthsPerYear * (MaxYears - 1) + 1)

===========================================================================
